---- MODULE Spec2Model ----
(***************************************************************************)
(* Model of src/calibration/spectral_response_monochromator.py: the script *)
(* that aligns, calibrates, normalises and combines the monochromator      *)
(* spectra of a camera into one spectral response curve.                   *)
(*                                                                         *)
(* Numbers.  A float is a pair <<n, d>>: a reduced fraction n/d with d > 0,*)
(* or NaN = <<0,0>>, +inf = <<1,0>>, -inf = <<-1,0>>.  Arithmetic is exact *)
(* (no rounding) and follows IEEE-754 for the special values; the sign of  *)
(* zero is not tracked, so x/0 is taken with the sign of x.  Operands are  *)
(* kept within MaxMagnitude; an operation on a larger one gives OutOfRange *)
(* and the run is cut off there (pc = "out_of_range").                     *)
(* Indices are 1-based: spectrum i here is index i-1 in the script, grid   *)
(* index k is k-1, channel c is c-1 (channel 1 is ratios[:,0]).            *)
(***************************************************************************)
EXTENDS Integers, Sequences, FiniteSets, TLC

\* ------------------------------------------------------------------ bounds
\* largest number of monochromator settings (subfolders) in one run
MaxSpectra == 3
\* wavelengths are drawn from 1..MaxWvl
MaxWvl == 4

\* largest numerator or denominator an arithmetic operation accepts
MaxMagnitude == 32500

\* the four Bayer channels R, G, B, G2 of np.full((.., .., 4), np.nan)
NChannels == 4
\* degree of the polynomial fitted to the ratios, np.polyfit(.., .., 2)
FitDegree == 2

Channels == 1..NChannels

\* ------------------------------------------------------------------ floats
NaN == <<0, 0>>
PInf == <<1, 0>>
NInf == <<-1, 0>>
Zero == <<0, 1>>
One == <<1, 1>>
OutOfRange == <<0, -1>>

Abs(n) == IF n < 0 THEN -n ELSE n
Sgn(n) == IF n < 0 THEN -1 ELSE IF n > 0 THEN 1 ELSE 0

RECURSIVE GCD(_, _)
GCD(a, b) == IF b = 0 THEN a ELSE GCD(b, a % b)

\* the reduced fraction n/d, d # 0
Frac(n, d) ==
    IF d > 0
    THEN LET g == GCD(IF n < 0 THEN -n ELSE n, d) IN <<n \div g, d \div g>>
    ELSE LET g == GCD(IF n < 0 THEN -n ELSE n, -d) IN <<-(n \div g), -(d \div g)>>

FInt(n) == <<n, 1>>
IsNaN(x) == x[2] = 0 /\ x[1] = 0
IsFinite(x) == x[2] # 0
IsInf(x) == x[2] = 0 /\ x[1] # 0
SignOf(x) == Sgn(x[1])
InfOf(s) == IF s < 0 THEN NInf ELSE PInf
IsOut(x) == x[2] < 0
\* a NaN, an infinity, or a fraction small enough to compute with
Fits(x) == x[2] >= 0 /\ x[2] <= MaxMagnitude /\ x[1] <= MaxMagnitude /\ -x[1] <= MaxMagnitude

\* Within MaxMagnitude the products below stay inside TLC's integers.
FAdd(x, y) ==
    IF x[2] > 0 /\ y[2] > 0
    THEN (IF Fits(x) /\ Fits(y)
          THEN Frac(x[1] * y[2] + y[1] * x[2], x[2] * y[2]) ELSE OutOfRange)
    ELSE IF IsOut(x) \/ IsOut(y) THEN OutOfRange
    ELSE IF IsNaN(x) \/ IsNaN(y) THEN NaN
    ELSE IF IsInf(x) THEN (IF IsInf(y) /\ y # x THEN NaN ELSE x)
    ELSE y

FMul(x, y) ==
    IF x[2] > 0 /\ y[2] > 0
    THEN (IF Fits(x) /\ Fits(y) THEN Frac(x[1] * y[1], x[2] * y[2]) ELSE OutOfRange)
    ELSE IF IsOut(x) \/ IsOut(y) THEN OutOfRange
    ELSE IF IsNaN(x) \/ IsNaN(y) THEN NaN
    ELSE IF SignOf(x) * SignOf(y) = 0 THEN NaN
    ELSE InfOf(SignOf(x) * SignOf(y))

FDiv(x, y) ==
    IF x[2] > 0 /\ y[2] > 0 /\ y[1] # 0
    THEN (IF Fits(x) /\ Fits(y) THEN Frac(x[1] * y[2], x[2] * y[1]) ELSE OutOfRange)
    ELSE IF IsOut(x) \/ IsOut(y) THEN OutOfRange
    ELSE IF IsNaN(x) \/ IsNaN(y) THEN NaN
    ELSE IF IsInf(x) THEN (IF IsInf(y) THEN NaN
                           ELSE InfOf(SignOf(x) * (IF SignOf(y) < 0 THEN -1 ELSE 1)))
    ELSE IF IsInf(y) THEN Zero
    ELSE IF x[1] = 0 THEN NaN ELSE InfOf(SignOf(x))

FNeg(x) == <<-x[1], x[2]>>
FSub(x, y) == FAdd(x, FNeg(y))

\* x < y for two floats that are not NaN
FLess(x, y) ==
    IF IsInf(x) \/ IsInf(y)
    THEN (IF x = y THEN FALSE ELSE x = NInf \/ y = PInf)
    ELSE x[1] * y[2] < y[1] * x[2]

FLeq(x, y) == x = y \/ FLess(x, y)

\* ------------------------------------------------------------ sequences
Range(s) == {s[k] : k \in 1..Len(s)}

RECURSIVE Concatenate(_)
\* np.concatenate of a sequence of sequences
Concatenate(ss) == IF ss = <<>> THEN <<>> ELSE Head(ss) \o Concatenate(Tail(ss))

\* insertion of v into the strictly increasing sequence s, dropping a duplicate
RECURSIVE InsertUnique(_, _)
InsertUnique(s, v) ==
    IF s = <<>> THEN <<v>>
    ELSE IF v < Head(s) THEN <<v>> \o s
    ELSE IF v = Head(s) THEN s
    ELSE <<Head(s)>> \o InsertUnique(Tail(s), v)

\* mutation of Unique: the concatenation as it is, neither sorted nor deduplicated
Unsorted(s) == s

RECURSIVE Unique(_)
\* np.unique: the sorted distinct elements of a sequence
Unique(s) == IF s = <<>> THEN <<>> ELSE InsertUnique(Unique(Tail(s)), Head(s))

\* mutation of SearchSorted: side='right'
SearchSortedRight(a, v) == 1 + Cardinality({k \in 1..Len(a) : a[k] <= v})

\* np.searchsorted(a, v), side='left', as a 1-based slot: 1 + the number of
\* elements of the sorted sequence a that are < v
SearchSorted(a, v) == 1 + Cardinality({k \in 1..Len(a) : a[k] < v})

\* a row of NChannels missing values
NaNRow == [c \in Channels |-> NaN]

\* ------------------------------------------------------------------ state
VARIABLES
    pc,                      \* the statement block the script is about to run
    wavelengths, means, stds,\* spectral.load_monochromator_data_multiple(...)
    cals,                    \* [spectral.load_cal_NERC(file) for file in cal_files]
    all_wavelengths, all_means, all_stds,
    all_means_calibrated, all_stds_calibrated,
    all_means_normalised, all_stds_normalised,
    all_overlaps, baseline, normalise_order,
    pos,                     \* how many entries of normalise_order the loop has taken
    comparisons,             \* i :> comparison, for every i the loop has taken
    fit_points,              \* i :> number of wavelengths in `ind` at i's polyfit
    rank_warned,             \* spectra whose polyfit issued RankWarning
    all_fit_norms,           \* i :> fit_norms, for every i whose fit was made
    flat_means_mask, flat_errs_mask,
    response_normalised, errors_normalised,
    error                    \* the uncaught exception that ended the run, or "none"

vars == <<pc, wavelengths, means, stds, cals, all_wavelengths, all_means, all_stds,
          all_means_calibrated, all_stds_calibrated, all_means_normalised,
          all_stds_normalised, all_overlaps, baseline, normalise_order, pos,
          comparisons, fit_points, rank_warned, all_fit_norms, flat_means_mask,
          flat_errs_mask, response_normalised, errors_normalised, error>>

NSpectra == Len(wavelengths)
Spectra == 1..NSpectra
GridLen == Len(all_wavelengths)
Grid == 1..GridLen

\* ----------------------------------------------------------------- inputs
\* The loader and the calibration files are outside the script.  A run's
\* inputs are drawn from four families of measurements of one camera:
\*   dark    every setting sees the same response, which is exactly 0 in
\*           channel 1 at wavelength 2; calibration factor 1
\*   graded  setting i has throughput i and a calibration factor that
\*           alternates between 1 and 2 along the wavelengths
\*   gap     the same response for every setting and calibration factor 2,
\*           but the calibration file of setting i lacks wavelength i
\*   blind   as dark, but the response at wavelength 2 is exactly 0 in every
\*           channel and the calibration factor at wavelength 2 is 0
\* Standard deviations are positive and finite.
Scenarios == {"dark", "graded", "gap", "blind"}

Response(s, w, c) ==
    IF s = "dark" /\ c = 1 /\ w = 2 THEN 0
    ELSE IF s = "blind" /\ w = 2 THEN 0
    ELSE 1 + ((w + c) % 3)

Gain(s, i) == IF s = "graded" THEN i ELSE 1

\* a setting measures the wavelengths lo..hi
InputWavelengths(lo, hi) == [k \in 1..(hi - lo + 1) |-> lo + k - 1]

InputMeans(s, i, wvl) ==
    [k \in 1..Len(wvl) |-> [c \in Channels |-> FInt(Gain(s, i) * Response(s, wvl[k], c))]]

InputStds(s, i, wvl) ==
    [k \in 1..Len(wvl) |-> [c \in Channels |->
        IF s = "graded" THEN FInt(1 + (c % 2)) ELSE One]]

\* the calibration curve: cal[0] (wavelengths) and cal[1] (factors); it starts
\* one wavelength below the measured range
InputCal(s, i) ==
    LET w == IF s = "gap"
             THEN SelectSeq([k \in 1..(MaxWvl + 1) |-> k - 1], LAMBDA x : x # i)
             ELSE [k \in 1..(MaxWvl + 1) |-> k - 1]
    IN  [wvl |-> w,
         factor |-> [k \in 1..Len(w) |->
                       IF s = "graded" THEN FInt(1 + ((w[k] + i) % 2))
                       ELSE IF s = "gap" THEN FInt(2)
                       ELSE IF s = "blind" /\ w[k] = 2 THEN Zero
                       ELSE One]]

Ranges == {r \in (1..MaxWvl) \X (1..MaxWvl) : r[1] <= r[2]}

\* the settings are listed in the order of their first, then last, wavelength
RangeLeq(r, q) == r[1] < q[1] \/ (r[1] = q[1] /\ r[2] <= q[2])

Init ==
    /\ \E n \in 1..MaxSpectra, s \in Scenarios :
         \E rs \in [1..n -> Ranges] :
            /\ \A i \in 1..(n - 1) : RangeLeq(rs[i], rs[i + 1])
            /\ wavelengths = [i \in 1..n |-> InputWavelengths(rs[i][1], rs[i][2])]
            /\ means = [i \in 1..n |-> InputMeans(s, i, wavelengths[i])]
            /\ stds = [i \in 1..n |-> InputStds(s, i, wavelengths[i])]
            /\ cals = [i \in 1..n |-> InputCal(s, i)]
    /\ pc = "align"
    /\ all_wavelengths = <<>>
    /\ all_means = <<>>
    /\ all_stds = <<>>
    /\ all_means_calibrated = <<>>
    /\ all_stds_calibrated = <<>>
    /\ all_means_normalised = <<>>
    /\ all_stds_normalised = <<>>
    /\ all_overlaps = <<>>
    /\ baseline = 0
    /\ normalise_order = <<>>
    /\ pos = 0
    /\ comparisons = <<>>
    /\ fit_points = <<>>
    /\ rank_warned = {}
    /\ all_fit_norms = <<>>
    /\ flat_means_mask = <<>>
    /\ flat_errs_mask = <<>>
    /\ response_normalised = <<>>
    /\ errors_normalised = <<>>
    /\ error = "none"

\* ------------------------------------------------------- grid alignment
RECURSIVE Scatter(_, _, _, _)
\* arr[indices] = rows: the assignments are made in order, a repeated index
\* keeps the last row
Scatter(arr, indices, rows, j) ==
    IF j > Len(indices) THEN arr
    ELSE Scatter([arr EXCEPT ![indices[j]] = rows[j]], indices, rows, j + 1)

AlignOne(grid, wvl, rows) ==
    LET indices == [j \in 1..Len(wvl) |-> SearchSorted(grid, wvl[j])]
    IN  Scatter([k \in 1..Len(grid) |-> NaNRow], indices, rows, 1)

Align ==
    /\ pc = "align"
    /\ all_wavelengths' = Unique(Concatenate(wavelengths))
    /\ all_means' = [i \in Spectra |-> AlignOne(all_wavelengths', wavelengths[i], means[i])]
    /\ all_stds' = [i \in Spectra |-> AlignOne(all_wavelengths', wavelengths[i], stds[i])]
    /\ pc' = "calibrate"
    /\ UNCHANGED <<wavelengths, means, stds, cals, all_means_calibrated,
                   all_stds_calibrated, all_means_normalised, all_stds_normalised,
                   all_overlaps, baseline, normalise_order, pos, comparisons,
                   fit_points, rank_warned, all_fit_norms, flat_means_mask, flat_errs_mask,
                   response_normalised, errors_normalised, error>>

\* ---------------------------------------------------------- calibration
\* mutation of CalIndex: the factor of the curve's first wavelength
CalIndexFirst(cal, w) == 1

\* np.intersect1d(cal[0], all_wavelengths, return_indices=True): the grid
\* indices whose wavelength is in the calibration curve, and for each the
\* index of its first occurrence in the curve
CalIndex(cal, w) == CHOOSE j \in 1..Len(cal.wvl) :
                       /\ cal.wvl[j] = w
                       /\ \A h \in 1..(j - 1) : cal.wvl[h] # w

CalibrateOne(grid, arr, cal) ==
    [k \in 1..Len(grid) |->
        IF grid[k] \in Range(cal.wvl)
        THEN [c \in Channels |-> FDiv(arr[k][c], cal.factor[CalIndex(cal, grid[k])])]
        ELSE NaNRow]

Calibrate ==
    /\ pc = "calibrate"
    /\ all_means_calibrated' =
          [i \in Spectra |-> CalibrateOne(all_wavelengths, all_means[i], cals[i])]
    /\ all_stds_calibrated' =
          [i \in Spectra |-> CalibrateOne(all_wavelengths, all_stds[i], cals[i])]
    /\ all_means_normalised' = all_means_calibrated'
    /\ all_stds_normalised' = all_stds_calibrated'
    /\ pc' = "overlaps"
    /\ UNCHANGED <<wavelengths, means, stds, cals, all_wavelengths, all_means, all_stds,
                   all_overlaps, baseline, normalise_order, pos, comparisons,
                   fit_points, rank_warned, all_fit_norms, flat_means_mask, flat_errs_mask,
                   response_normalised, errors_normalised, error>>

\* ------------------------------------------------------ overlap analysis
\* mutation of overlap: the cells of spectrum_a alone
overlap_one_sided(spectrum_a, spectrum_b) ==
    Cardinality({kc \in (1..Len(spectrum_a)) \X Channels :
                    ~IsNaN(spectrum_a[kc[1]][kc[2]])})

\* overlap(spectrum_a, spectrum_b): the number of cells of a + b that are not NaN
overlap(spectrum_a, spectrum_b) ==
    Cardinality({kc \in (1..Len(spectrum_a)) \X Channels :
                    ~IsNaN(FAdd(spectrum_a[kc[1]][kc[2]], spectrum_b[kc[1]][kc[2]]))})

\* np.argmax: the first index holding the maximum
ArgMax(row) == CHOOSE i \in 1..Len(row) :
                  /\ \A j \in 1..Len(row) : row[j] <= row[i]
                  /\ \A j \in 1..(i - 1) : row[j] < row[i]

IndexOrders(n) == {p \in [1..n -> 1..n] : \A a, b \in 1..n : a # b => p[a] # p[b]}

\* np.argsort(row), kind='quicksort': an index order along which row does not
\* decrease.  The sort is not stable, so the order among equal entries is
\* whichever the build's sort produces: every such order is an outcome.
ArgSorts(row) ==
    {p \in IndexOrders(Len(row)) : \A a \in 1..(Len(row) - 1) : row[p[a]] <= row[p[a + 1]]}

\* mutation of DropLastReversed: sorted[:-1], the ascending order kept
DropLastAscending(p) == [k \in 1..(Len(p) - 1) |-> p[k]]

\* sorted[-2::-1]: from the last-but-one entry down to the first
DropLastReversed(p) == [k \in 1..(Len(p) - 1) |-> p[Len(p) - k]]

Overlaps ==
    /\ pc = "overlaps"
    /\ all_overlaps' = [j \in Spectra |-> [i \in Spectra |->
                           overlap(all_means_calibrated[i], all_means_calibrated[j])]]
    /\ baseline' = ArgMax([i \in Spectra |-> all_overlaps'[i][i]])
    /\ \E p \in ArgSorts(all_overlaps'[baseline']) :
          normalise_order' = DropLastReversed(p)
    /\ pc' = "normalise"
    /\ UNCHANGED <<wavelengths, means, stds, cals, all_wavelengths, all_means, all_stds,
                   all_means_calibrated, all_stds_calibrated, all_means_normalised,
                   all_stds_normalised, pos, comparisons, fit_points, rank_warned, all_fit_norms,
                   flat_means_mask, flat_errs_mask, response_normalised,
                   errors_normalised, error>>

\* ------------------------------------------------------------- np.polyfit
RECURSIVE FSum(_)
FSum(s) == IF s = <<>> THEN Zero ELSE FAdd(Head(s), FSum(Tail(s)))

RECURSIVE ISum(_)
ISum(s) == IF s = <<>> THEN 0 ELSE Head(s) + ISum(Tail(s))

\* a row of np.vander(x, FitDegree + 1): x^2, x, 1
Vander(x) == <<x * x, x, 1>>
Order == 1..(FitDegree + 1)

\* lhs^T lhs of the least-squares system (the column scaling cancels when the
\* system has full column rank)
Gram(xs) == [a \in Order |-> [b \in Order |->
                ISum([i \in 1..Len(xs) |-> Vander(xs[i])[a] * Vander(xs[i])[b]])]]

Det3(m) ==   m[1][1] * (m[2][2] * m[3][3] - m[2][3] * m[3][2])
           - m[1][2] * (m[2][1] * m[3][3] - m[2][3] * m[3][1])
           + m[1][3] * (m[2][1] * m[3][2] - m[2][2] * m[3][1])

\* the adjugate of a symmetric 3x3 matrix
Adj3(m) ==
    LET Minor(r1, r2, c1, c2) == m[r1][c1] * m[r2][c2] - m[r1][c2] * m[r2][c1]
    IN  <<<<Minor(2, 3, 2, 3), -Minor(2, 3, 1, 3), Minor(2, 3, 1, 2)>>,
          <<-Minor(1, 3, 2, 3), Minor(1, 3, 1, 3), -Minor(1, 3, 1, 2)>>,
          <<Minor(1, 2, 2, 3), -Minor(1, 2, 1, 3), Minor(1, 2, 1, 2)>>>>

\* The fitted polynomial's value at w is a fixed linear combination of the
\* fitted values ys: sum_i FitWeights(..)[i] * ys[i].
\*   Len(xs) > FitDegree: the unique least-squares solution (normal equations).
\*   otherwise: lstsq's minimum-norm solution of the column-scaled system,
\*   c = S^-2 A^T (A S^-2 A^T)^-1 y with S^2 the column sums of squares.
\* LstsqSystem holds what depends on xs alone.
LstsqSystem(xs) ==
    LET g == Gram(xs)
    IN  [colsq |-> [a \in Order |-> g[a][a]], adj |-> Adj3(g), det |-> Det3(g)]

FitWeights(sys, xs, w) ==
    LET n == Len(xs)
        vw == Vander(w)
        \* colsq[1] * colsq[2] * colsq[3] times the kernel v(u)^T S^-2 v(x)
        Kern(vu, x) == vu[1] * x * x * sys.colsq[2] * sys.colsq[3]
                       + vu[2] * x * sys.colsq[1] * sys.colsq[3]
                       + vu[3] * sys.colsq[1] * sys.colsq[2]
    IN  IF n > FitDegree
        THEN LET row == [b \in Order |-> vw[1] * sys.adj[1][b] + vw[2] * sys.adj[2][b]
                                         + vw[3] * sys.adj[3][b]]
             IN  [i \in 1..n |->
                    Frac(row[1] * xs[i] * xs[i] + row[2] * xs[i] + row[3], sys.det)]
        ELSE IF n = 1
        THEN <<Frac(Kern(vw, xs[1]), Kern(Vander(xs[1]), xs[1]))>>
        ELSE LET a == Kern(Vander(xs[1]), xs[1])
                 b == Kern(Vander(xs[1]), xs[2])
                 d == Kern(Vander(xs[2]), xs[2])
                 k1 == Kern(vw, xs[1])
                 k2 == Kern(vw, xs[2])
             IN  IF \A v \in {a, b, d, k1, k2} : v <= MaxMagnitude /\ -v <= MaxMagnitude
                 THEN <<Frac(k1 * d - k2 * b, a * d - b * b),
                        Frac(k2 * a - k1 * b, a * d - b * b)>>
                 ELSE <<OutOfRange, OutOfRange>>

\* np.polyval at one wavelength of the polynomial fitted to ys, given the
\* weights of that wavelength
PolyFitEval(lam, ys) == FSum([i \in 1..Len(ys) |-> FMul(lam[i], ys[i])])

\* ---------------------------------------------------------- normalisation
\* np.argsort(all_overlaps[i])[-2]
Comparisons(i) ==
    IF all_overlaps[i][baseline] # 0
    THEN {baseline}
    ELSE {p[NSpectra - 1] : p \in ArgSorts(all_overlaps[i])}

\* the indices of a set of grid indices, in increasing order
RECURSIVE SortedSeq(_)
SortedSeq(S) == IF S = {} THEN <<>>
                ELSE LET m == CHOOSE x \in S : \A y \in S : x <= y
                     IN  <<m>> \o SortedSeq(S \ {m})

Ratios(i, comparison) ==
    [k \in Grid |-> [c \in Channels |->
        FDiv(all_means_calibrated[i][k][c], all_means_normalised[comparison][k][c])]]

\* mutation of Ind: every grid wavelength, NaN ratios included
IndEveryWavelength(ratios) == SortedSeq(Grid)

\* ind = ~np.isnan(ratios[:,0])
Ind(ratios) == SortedSeq({k \in Grid : ~IsNaN(ratios[k][1])})

\* fits = np.polyfit(all_wavelengths[ind], ratios[ind], 2), one column per
\* channel; fit_norms = each column's np.polyval over all_wavelengths
FitNorms(ratios, ind) ==
    LET xs == [j \in 1..Len(ind) |-> all_wavelengths[ind[j]]]
        sys == LstsqSystem(xs)
        lam == [k \in Grid |-> FitWeights(sys, xs, all_wavelengths[k])]
    IN  [k \in Grid |-> [c \in Channels |->
            PolyFitEval(lam[k], [j \in 1..Len(ind) |-> ratios[ind[j]][c]])]]

\* every number of a [grid][channel] array can be computed with
Representable(arr) == \A k \in 1..Len(arr) : \A c \in Channels : Fits(arr[k][c])

DivideBy(arr, fit_norms) ==
    [k \in Grid |-> [c \in Channels |-> FDiv(arr[k][c], fit_norms[k][c])]]

\* one pass of `for i in normalise_order`
NormaliseStep ==
    /\ pc = "normalise"
    /\ pos < Len(normalise_order)
    /\ \E i \in {normalise_order[pos + 1]} :
       \E comparison \in Comparisons(i) :
       \E ratios \in {Ratios(i, comparison)} :
       \E ind \in {Ind(ratios)} :
          /\ comparisons' = (i :> comparison) @@ comparisons
          /\ fit_points' = (i :> Len(ind)) @@ fit_points
          /\ IF ind = <<>>
             THEN \* np.polyfit: TypeError("expected non-empty vector for x")
                  /\ error' = "TypeError"
                  /\ pc' = "error"
                  /\ UNCHANGED <<all_means_normalised, all_stds_normalised,
                                 rank_warned, all_fit_norms, pos>>
             ELSE \E fit_norms \in {FitNorms(ratios, ind)} :
                  \E new_means \in {DivideBy(all_means_calibrated[i], fit_norms)},
                     new_stds \in {DivideBy(all_stds_calibrated[i], fit_norms)} :
                  /\ all_means_normalised' = [all_means_normalised EXCEPT ![i] = new_means]
                  /\ all_stds_normalised' = [all_stds_normalised EXCEPT ![i] = new_stds]
                  \* rank != order: RankWarning, the fit is returned all the same
                  /\ rank_warned' = IF Len(ind) <= FitDegree
                                    THEN rank_warned \cup {i}
                                    ELSE rank_warned
                  /\ all_fit_norms' = (i :> fit_norms) @@ all_fit_norms
                  /\ pos' = pos + 1
                  /\ pc' = IF Representable(new_means) /\ Representable(new_stds)
                           THEN pc ELSE "out_of_range"
                  /\ UNCHANGED error
    /\ UNCHANGED <<wavelengths, means, stds, cals, all_wavelengths, all_means, all_stds,
                   all_means_calibrated, all_stds_calibrated, all_overlaps, baseline,
                   normalise_order, flat_means_mask, flat_errs_mask,
                   response_normalised, errors_normalised>>

\* ------------------------------------------------------------ combination
\* A cell of a numpy masked array is <<data, mask>>.

\* np.ma.array(x, mask=np.isnan(x))
MaArray(x) == <<x, IsNaN(x)>>

\* a ** 2 (np.ma.power): the data under the mask is left alone.  A power that
\* is not finite cannot arise from the script's data (no std is zero, so no
\* SNR is infinite); it is given as masked.
MaSquare(a) ==
    IF a[2] THEN a
    ELSE LET r == FMul(a[1], a[1]) IN IF IsFinite(r) THEN <<r, FALSE>> ELSE <<r, TRUE>>

\* a * b (np.ma.multiply): under the mask the data reverts to a's
MaMultiply(a, b) ==
    LET m == a[2] \/ b[2] IN <<IF m THEN a[1] ELSE FMul(a[1], b[1]), m>>

\* _DomainSafeDivide: abs(a) * tiny >= abs(b)
DomainSafeDivide(x, y) ==
    /\ ~IsNaN(x) /\ ~IsNaN(y)
    /\ \/ IsInf(x)
       \/ IsFinite(y) /\ y[1] = 0

\* a / b (np.ma.true_divide): masked where an operand is masked, where the
\* quotient is not finite and where the divisor is (next to) zero; under the
\* mask the data is a's
MaTrueDivide(a, b) ==
    LET r == FDiv(a[1], b[1])
        m == ~IsFinite(r) \/ DomainSafeDivide(a[1], b[1]) \/ a[2] \/ b[2]
    IN  <<IF m THEN a[1] ELSE r, m>>

\* .sum(axis=0) of a column of cells: the sum of self.filled(0), masked when
\* every cell of the column is masked
MaSum(col) ==
    <<FSum([i \in 1..Len(col) |-> IF col[i][2] THEN Zero ELSE col[i][1]]),
      \A i \in 1..Len(col) : col[i][2]>>

\* A square root is kept as <<s, q>>, the number s * sqrt(q), s in {-1, 0, 1}.
Root(q) == <<SignOf(q), q>>

\* np.sqrt of a masked cell holding q >= 0
MaSqrt(a) == <<Root(a[1]), a[2]>>

\* a / b for a cell a holding a root and a float cell b, as MaTrueDivide
MaRootDivide(a, b) ==
    LET y == b[1]
        ok == IsFinite(y) /\ y[1] # 0 /\ ~a[2] /\ ~b[2]
    IN  IF ok THEN <<<<a[1][1] * SignOf(y), FDiv(a[1][2], FMul(y, y))>>, FALSE>>
        ELSE <<a[1], TRUE>>

\* mutation of MaMax: the first cell that is not masked
MaFirst(cells) ==
    LET live == {j \in 1..Len(cells) : ~cells[j][2]}
    IN  IF live = {} THEN <<Zero, TRUE>>
        ELSE <<cells[CHOOSE j \in live : \A h \in live : j <= h][1], FALSE>>

\* .max() of a masked array given as a sequence of cells: the largest data
\* that is not masked; the constant `masked` (data 0) when every cell is masked
MaMax(cells) ==
    LET live == {j \in 1..Len(cells) : ~cells[j][2]}
    IN  IF live = {} THEN <<Zero, TRUE>>
        ELSE <<cells[CHOOSE j \in live : \A h \in live : FLeq(cells[h][1], cells[j][1])][1],
               FALSE>>

\* the cells of a [grid][channel] array, row by row
Flatten(arr) == [j \in 1..(Len(arr) * NChannels) |->
                    arr[1 + ((j - 1) \div NChannels)][1 + ((j - 1) % NChannels)]]

\* SNR = all_means_normalised / all_stds_normalised; weights = SNR_mask**2:
\* the weights of one (wavelength, channel) cell, one per spectrum
WeightsCol(k, c) ==
    [i \in Spectra |->
        MaSquare(MaArray(FDiv(all_means_normalised[i][k][c], all_stds_normalised[i][k][c])))]

\* np.ma.average(mean_mask, axis=0, weights=weights) at one cell
MaAverage(means_col, weights_col) ==
    LET n == Len(means_col)
        a == [i \in 1..n |-> MaArray(means_col[i])]
        \* wgt = wgt*(~a.mask) ; wgt.mask |= a.mask
        wgt == [i \in 1..n |->
                  LET w == weights_col[i]
                  IN  <<IF w[2] THEN w[1] ELSE FMul(w[1], IF a[i][2] THEN Zero ELSE One),
                        w[2] \/ a[i][2]>>]
        scl == MaSum(wgt)
        \* np.multiply(a, wgt): the product of the data, masked where either is
        prod == [i \in 1..n |-> <<FMul(a[i][1], wgt[i][1]), a[i][2] \/ wgt[i][2]>>]
    IN  MaTrueDivide(MaSum(prod), scl)

\* mutation of MaErrors: the weights are not divided by their sum
MaErrorsUnscaled(stds_col, weights_col) ==
    LET n == Len(stds_col)
        term == [i \in 1..n |->
                   MaSquare(MaMultiply(MaTrueDivide(weights_col[i], weights_col[i]),
                                       MaArray(stds_col[i])))]
    IN  MaSqrt(MaSum(term))

\* np.sqrt(np.ma.sum((weights/weights.sum(axis=0) * stds_mask)**2, axis=0))
MaErrors(stds_col, weights_col) ==
    LET n == Len(stds_col)
        wsum == MaSum(weights_col)
        term == [i \in 1..n |->
                   MaSquare(MaMultiply(MaTrueDivide(weights_col[i], wsum),
                                       MaArray(stds_col[i])))]
    IN  MaSqrt(MaSum(term))

FlatMeansMask ==
    [k \in Grid |-> [c \in Channels |->
        MaAverage([i \in Spectra |-> all_means_normalised[i][k][c]], WeightsCol(k, c))]]

FlatErrsMask ==
    [k \in Grid |-> [c \in Channels |->
        MaErrors([i \in Spectra |-> all_stds_normalised[i][k][c]], WeightsCol(k, c))]]

Combine ==
    /\ pc = "normalise"
    /\ pos = Len(normalise_order)
    /\ flat_means_mask' = FlatMeansMask
    /\ flat_errs_mask' = FlatErrsMask
    /\ IF /\ \A k \in Grid, c \in Channels :
               Fits(flat_means_mask'[k][c][1]) /\ Fits(flat_errs_mask'[k][c][1][2])
       THEN \E max \in {MaMax(Flatten(flat_means_mask'))} :
               \* (... / flat_means_mask.max()).data
               /\ response_normalised' = [k \in Grid |-> [c \in Channels |->
                     MaTrueDivide(flat_means_mask'[k][c], max)[1]]]
               /\ errors_normalised' = [k \in Grid |-> [c \in Channels |->
                     MaRootDivide(flat_errs_mask'[k][c], max)[1]]]
               /\ pc' = IF \A k \in Grid, c \in Channels :
                              /\ ~IsOut(response_normalised'[k][c])
                              /\ ~IsOut(errors_normalised'[k][c][2])
                        THEN "done" ELSE "out_of_range"
       ELSE /\ pc' = "out_of_range"
            /\ UNCHANGED <<response_normalised, errors_normalised>>
    /\ UNCHANGED <<wavelengths, means, stds, cals, all_wavelengths, all_means, all_stds,
                   all_means_calibrated, all_stds_calibrated, all_means_normalised,
                   all_stds_normalised, all_overlaps, baseline, normalise_order, pos,
                   comparisons, fit_points, rank_warned, all_fit_norms, error>>

Next == Align \/ Calibrate \/ Overlaps \/ NormaliseStep \/ Combine

Spec == Init /\ [][Next]_vars

\* ================================================================ properties
\* the spectra the normalisation loop has taken so far
Processed == DOMAIN comparisons

\* the loop has been set up (baseline and normalise_order are assigned)
LoopSetUp == pc \in {"normalise", "done", "error", "out_of_range"}

\* C1: the baseline spectrum is never taken by the normalisation loop, is
\* never its own comparison, and its normalised entry equals its calibrated
\* entry cell for cell, also when another spectrum overlaps the baseline as
\* much as the baseline overlaps itself.
C1_BaselineUntouched ==
    LoopSetUp =>
        /\ \A k \in 1..Len(normalise_order) : normalise_order[k] # baseline
        /\ baseline \notin Processed
        /\ \A i \in Processed : comparisons[i] # i
        /\ all_means_normalised[baseline] = all_means_calibrated[baseline]
        /\ all_stds_normalised[baseline] = all_stds_calibrated[baseline]

\* spectrum i shares no valid cell with any other spectrum
Isolated(i) == \A j \in Spectra \ {i} : all_overlaps[i][j] = 0

\* C2: when the loop reaches a spectrum whose overlap with every other
\* spectrum is zero, the run ends in an error: the spectrum is not rescaled
\* and no combined output is produced.
C2_NoOverlapEndsRun ==
    \A i \in Processed :
        Isolated(i) =>
            /\ pc = "error"
            /\ error # "none"
            /\ all_means_normalised[i] = all_means_calibrated[i]
            /\ all_stds_normalised[i] = all_stds_calibrated[i]
            /\ flat_means_mask = <<>>
            /\ flat_errs_mask = <<>>
            /\ response_normalised = <<>>
            /\ errors_normalised = <<>>

\* a run of three settings that stopped at an isolated spectrum which has
\* valid cells of its own
C2_Witness ==
    /\ pc = "error"
    /\ NSpectra = 3
    /\ \E i \in Processed : Isolated(i) /\ all_overlaps[i][i] > 0 /\ fit_points[i] = 0

\* the cell is missing in every normalised spectrum
AllMissing(k, c) == \A i \in Spectra : IsNaN(all_means_normalised[i][k][c])

\* C3: in the saved arrays a (wavelength, channel) cell is missing if and only
\* if it is missing in every normalised spectrum; a cell without valid data
\* is never output as zero or another finite number.
C3_MissingIffAllMissing ==
    pc = "done" =>
        \A k \in Grid, c \in Channels :
            /\ IsNaN(response_normalised[k][c]) <=> AllMissing(k, c)
            /\ IsNaN(errors_normalised[k][c][2]) <=> AllMissing(k, c)

\* C4: a fit over one or two wavelengths ends the run in a DegenerateFit
\* outcome, and the fitted curve is not used for that spectrum.
C4_DegenerateFitReported ==
    \A i \in Processed :
        fit_points[i] \in 1..FitDegree =>
            /\ pc = "error"
            /\ error # "none"
            /\ all_means_normalised[i] = all_means_calibrated[i]
            /\ all_stds_normalised[i] = all_stds_calibrated[i]

\* the cells of the combined mean that are not masked
LiveCells == {kc \in Grid \X Channels : ~flat_means_mask[kc[1]][kc[2]][2]}
CombinedMean(kc) == flat_means_mask[kc[1]][kc[2]][1]

\* the live cells holding the largest combined mean
Peaks == {top \in LiveCells : \A kc \in LiveCells : FLeq(CombinedMean(kc), CombinedMean(top))}

\* C5: the saved response and errors are the combined mean and std divided
\* by one scalar, the largest combined mean over the non-missing cells; when
\* that maximum is positive the response at the peak is 1 and no non-missing
\* response exceeds 1.
C5_UnitPeak ==
    pc = "done" =>
        \A top \in Peaks :
            LET m == CombinedMean(top)
            IN  m # Zero =>
                /\ \A kc \in LiveCells :
                      response_normalised[kc[1]][kc[2]] = FDiv(CombinedMean(kc), m)
                /\ \A k \in Grid, c \in Channels :
                      ~flat_errs_mask[k][c][2] =>
                          errors_normalised[k][c] =
                              <<flat_errs_mask[k][c][1][1] * SignOf(m),
                                FDiv(flat_errs_mask[k][c][1][2], FMul(m, m))>>
                /\ FLess(Zero, m) =>
                      /\ response_normalised[top[1]][top[2]] = One
                      /\ \A kc \in LiveCells : FLeq(response_normalised[kc[1]][kc[2]], One)

\* a finished run of several settings whose peak is positive and not 1, with
\* a live cell below the peak and an error that is not zero
C5_Witness ==
    /\ pc = "done"
    /\ NSpectra >= 2
    /\ \E top \in Peaks :
          /\ FLess(Zero, CombinedMean(top))
          /\ CombinedMean(top) # One
          /\ \E kc \in LiveCells : FLess(response_normalised[kc[1]][kc[2]], One)
          /\ \E k \in Grid, c \in Channels :
                ~flat_errs_mask[k][c][2] /\ errors_normalised[k][c][1] = 1

\* the cells at which both spectra are not missing
SharedCells(a, b) ==
    {kc \in Grid \X Channels :
        /\ ~IsNaN(all_means_calibrated[a][kc[1]][kc[2]])
        /\ ~IsNaN(all_means_calibrated[b][kc[1]][kc[2]])}

C7_GridIsSortedUnion ==
    pc # "align" =>
        /\ \A k \in 1..(GridLen - 1) : all_wavelengths[k] < all_wavelengths[k + 1]
        /\ Range(all_wavelengths) = UNION {Range(wavelengths[i]) : i \in Spectra}

\* settings whose wavelengths repeat and whose concatenation is out of order
C7_Witness ==
    /\ pc # "align"
    /\ \E i, j \in Spectra :
          /\ i < j
          /\ Range(wavelengths[i]) \cap Range(wavelengths[j]) # {}
          /\ wavelengths[j][1] < wavelengths[i][Len(wavelengths[i])]
          /\ Range(wavelengths[i]) # Range(all_wavelengths)

\* C8: after alignment the rows of setting i sit at the grid index of their
\* wavelength, and every other grid index of setting i is missing in all
\* four channels.
C8_Alignment ==
    pc # "align" =>
        \A i \in Spectra, k \in Grid :
            IF all_wavelengths[k] \in Range(wavelengths[i])
            THEN \A j \in 1..Len(wavelengths[i]) :
                    wavelengths[i][j] = all_wavelengths[k] =>
                        /\ all_means[i][k] = means[i][j]
                        /\ all_stds[i][k] = stds[i][j]
            ELSE /\ all_means[i][k] = NaNRow
                 /\ all_stds[i][k] = NaNRow

\* a setting whose first wavelength is not the first of the grid and which
\* lacks some grid wavelength
C8_Witness ==
    /\ pc # "align"
    /\ \E i \in Spectra :
          /\ wavelengths[i][1] # all_wavelengths[1]
          /\ Len(wavelengths[i]) >= 2
          /\ all_means[i][1] = NaNRow
          /\ all_means[i][GridLen] # NaNRow

\* C9: at a grid wavelength of the calibration curve the calibrated mean and
\* std are the aligned mean and std divided by the curve's factor there, the
\* same for the four channels, missing cells staying missing; at any other
\* grid wavelength they are missing in all four channels.
C9_Calibration ==
    pc \notin {"align", "calibrate"} =>
        \A i \in Spectra, k \in Grid :
            IF all_wavelengths[k] \in Range(cals[i].wvl)
            THEN \A j \in 1..Len(cals[i].wvl) :
                    cals[i].wvl[j] = all_wavelengths[k] =>
                        \A c \in Channels :
                            /\ all_means_calibrated[i][k][c] =
                                   FDiv(all_means[i][k][c], cals[i].factor[j])
                            /\ all_stds_calibrated[i][k][c] =
                                   FDiv(all_stds[i][k][c], cals[i].factor[j])
                            /\ IsNaN(all_means[i][k][c]) => IsNaN(all_means_calibrated[i][k][c])
                            /\ IsNaN(all_stds[i][k][c]) => IsNaN(all_stds_calibrated[i][k][c])
            ELSE /\ all_means_calibrated[i][k] = NaNRow
                 /\ all_stds_calibrated[i][k] = NaNRow

\* a spectrum with a measured wavelength outside its calibration curve and
\* with a cell that a factor other than 1 rescaled, next to a missing cell
C9_Witness ==
    /\ pc \notin {"align", "calibrate"}
    /\ \E i \in Spectra, k \in Grid :
          /\ all_wavelengths[k] \notin Range(cals[i].wvl)
          /\ all_means[i][k] # NaNRow
    /\ \E i \in Spectra, k, h \in Grid :
          /\ IsFinite(all_means_calibrated[i][k][1])
          /\ all_means_calibrated[i][k][1] # all_means[i][k][1]
          /\ all_means[i][h] = NaNRow

\* the run combined two spectra that are identical after normalisation
TwoCopies ==
    /\ pc = "done"
    /\ NSpectra = 2
    /\ all_means_normalised[1] = all_means_normalised[2]
    /\ all_stds_normalised[1] = all_stds_normalised[2]

\* the combined mean is the copy's mean and the combined std is the copy's
\* std times 1/sqrt(2), at cell (k, c)
CopyCombined(k, c) ==
    /\ flat_means_mask[k][c] = <<all_means_normalised[1][k][c], FALSE>>
    /\ flat_errs_mask[k][c] =
          <<Root(FDiv(FMul(all_stds_normalised[1][k][c], all_stds_normalised[1][k][c]),
                      FInt(2))), FALSE>>

TakenPositions == {p \in 1..Len(normalise_order) : normalise_order[p] \in Processed}

\* C11: the comparison of a spectrum is the baseline or a spectrum the loop
\* normalised at an earlier position of normalise_order; a spectrum that is
\* not yet normalised is never the reference.
C11_ComparisonAlreadyNormalised ==
    \A p \in TakenPositions :
        LET comparison == comparisons[normalise_order[p]]
        IN  \/ comparison = baseline
            \/ \E q \in 1..(p - 1) : normalise_order[q] = comparison

\* the loop has run to its end without an exception
LoopEnded == pc \in {"normalise", "done"} /\ pos = Len(normalise_order)

\* C12: the loop takes every spectrum other than the baseline exactly once,
\* none is skipped and none is taken twice, also when spectra tie on their
\* overlap scores.
C12_EachNonBaselineOnce ==
    LoopEnded =>
        \A i \in Spectra \ {baseline} :
            Cardinality({p \in TakenPositions : normalise_order[p] = i}) = 1

\* C13: the comparison of spectrum i is the baseline when i overlaps the
\* baseline; otherwise it is the spectrum other than i that overlaps i most,
\* the first in index order among equals.  It is never i itself.
C13_ComparisonChoice ==
    \A i \in Processed :
        LET comparison == comparisons[i]
        IN  /\ comparison # i
            /\ IF all_overlaps[i][baseline] > 0
               THEN comparison = baseline
               ELSE \A j \in Spectra \ {i} :
                       /\ all_overlaps[i][j] <= all_overlaps[i][comparison]
                       /\ all_overlaps[i][j] = all_overlaps[i][comparison] => comparison <= j

NotPositive(f) == ~IsOut(f) /\ (~IsFinite(f) \/ FLeq(f, Zero))

\* C15: where the fitted curve of spectrum i is not finite or not above zero,
\* the normalised mean and std of spectrum i are missing.
C15_BadFitGivesMissing ==
    \A i \in DOMAIN all_fit_norms : \A k \in Grid, c \in Channels :
        NotPositive(all_fit_norms[i][k][c]) =>
            /\ IsNaN(all_means_normalised[i][k][c])
            /\ IsNaN(all_stds_normalised[i][k][c])

\* the mean and std arrays are missing at the same cells
SameMissing(mean_arr, std_arr) ==
    \A i \in 1..Len(mean_arr) : \A k \in 1..Len(mean_arr[i]) : \A c \in Channels :
        IsNaN(mean_arr[i][k][c]) <=> IsNaN(std_arr[i][k][c])

\* C16: when the loaded means and stds are missing at the same cells, so are
\* the aligned, the calibrated and the normalised means and stds, after
\* every pass of the normalisation loop.
C16_MeanStdMissingTogether ==
    SameMissing(means, stds) =>
        /\ SameMissing(all_means, all_stds)
        /\ SameMissing(all_means_calibrated, all_stds_calibrated)
        /\ SameMissing(all_means_normalised, all_stds_normalised)

====
